---- MODULE Spec2Model ----
(***************************************************************************)
(* Model of the TSDB manager (pkg/storage/stores/tsdb/manager.go):         *)
(* tsdbManager.Start, tsdbManager.BuildFromWALs and indexBuckets.          *)
(*                                                                         *)
(* Strings the code inspects or concatenates (directory names, table       *)
(* prefixes, bucket keys) are sequences of one-character strings, so that  *)
(* the suffix test of Start and the concatenation of indexBuckets are      *)
(* computed as the code computes them.  Times are in hours; the times of   *)
(* the model stay far inside the range in which UnixNano is representable. *)
(***************************************************************************)
EXTENDS Integers, Sequences, FiniteSets, TLC

VARIABLES
    tableRanges,    \* tsdbManager.tableRanges: table number -> prefix
    ibFrom,         \* indexBuckets: argument from
    ibThrough,      \* indexBuckets: argument through
    ibOut,          \* indexBuckets: the returned (res, err), NotCalled before
    fsRootOk,       \* whether the multitenant root can be listed
    fsTop,          \* the first-level entries of the multitenant root
    calls,          \* the calls made on the collaborators, in order
    spc,            \* Start: position
    sErr,           \* Start: the returned err
    sFiles,         \* Start: first-level entries still to visit
    sBucket,        \* Start: bucket, the directory being scanned
    sTsdbs,         \* Start: entries of the bucket still to visit
    buckets,        \* Start: counter of the exit log
    indices,        \* Start: counter of the exit log
    loadingErrors,  \* Start: counter of the exit log
    wal,            \* the series held by the WAL segments of a build
    bpc,            \* BuildFromWALs: position
    bT,             \* BuildFromWALs: argument t
    recoverErr,     \* BuildFromWALs: what recoverHead returned
    heads,          \* BuildFromWALs: tmp, the series recovered
    visited,        \* BuildFromWALs: the series forAll has visited
    periods,        \* BuildFromWALs: bucket key -> Builder (its series)
    built,          \* BuildFromWALs: keys the range over periods has done
    bErr,           \* BuildFromWALs: the returned err
    tsdbCreationsTotal,     \* Metrics: build attempts
    tsdbCreationFailures,   \* Metrics: build failures
    cpc,            \* two BuildFromWALs calls: position of each call
    cafter,         \* the calls that had returned when the call began
    cheads,         \* tmp of each call
    cvisited,       \* the series forAll of each call has visited
    cmaps,          \* the maps made at line 176: bucket key -> Builder
    cowner,         \* per Builder: the call that made it, the calls that
                    \* added a series to it
    cbuilt,         \* keys the range over periods of each call has done
    cErr,           \* the err each call returned
    clog            \* the calls each call made on the collaborators

bucketVars == <<ibFrom, ibThrough, ibOut>>
fsVars == <<fsRootOk, fsTop>>
startVars == <<spc, sErr, sFiles, sBucket, sTsdbs, buckets, indices, loadingErrors>>

buildVars == <<wal, bpc, bT, recoverErr, heads, visited, periods, built, bErr,
               tsdbCreationsTotal, tsdbCreationFailures>>

callVars == <<cpc, cafter, cheads, cvisited, cmaps, cowner, cbuilt, cErr, clog>>

vars == <<tableRanges, bucketVars, fsVars, calls, startVars, buildVars, callVars>>

----------------------------------------------------------------------------
(* Bounds of the model *)

\* table numbers  -(MaxTbl+1) .. MaxTbl  may carry a configuration entry
MaxTbl == 1
\* a wide two-prefix configuration covers table numbers 0 .. WideTbl
WideTbl == 11
\* identifiers 1 .. MaxTsdb name the parseable files of a bucket directory
MaxTsdb == 2
\* a WAL set holds at most MaxSeries series
MaxSeries == 2

\* config.ObjectStorageIndexRequiredPeriod (24h), in hours
ObjectStorageIndexRequiredPeriod == 24

----------------------------------------------------------------------------
(* Strings *)

DigitChars == <<"0", "1", "2", "3", "4", "5", "6", "7", "8", "9">>

IsDigit(c) == \E i \in 1..10 : DigitChars[i] = c

RECURSIVE Digits(_)
Digits(n) ==
    IF n < 10 THEN <<DigitChars[n + 1]>>
    ELSE Digits(n \div 10) \o <<DigitChars[(n % 10) + 1]>>

\* a plausible slip: the sign of a negative number is dropped
ItoaUnsigned(n) == IF n < 0 THEN Digits(-n) ELSE Digits(n)

\* strconv.Itoa
Itoa(n) == IF n < 0 THEN <<"-">> \o Digits(-n) ELSE Digits(n)

----------------------------------------------------------------------------
(* indexBuckets *)

\* Go's integer division of int64 by a positive divisor: truncation to zero
GoDiv(a, b) == IF a >= 0 THEN a \div b ELSE -((-a) \div b)

\* a nil *PeriodConfig
NoConfig == [isNil |-> TRUE, Prefix |-> <<>>]

\* a PeriodConfig whose IndexTables.Prefix is p
PeriodConfig(p) == [isNil |-> FALSE, Prefix |-> p]

\* TableRanges.ConfigForTableNumber: the entry of table number n, or nil
ConfigForTableNumber(tr, n) == IF n \in DOMAIN tr THEN tr[n] ELSE NoConfig

\* the loop of indexBuckets: cur runs from start to end; a table number
\* without configuration returns (nil, error)
RECURSIVE IndexBucketsLoop(_, _, _, _)
IndexBucketsLoop(cur, end, tr, res) ==
    IF cur > end THEN [res |-> res, err |-> "nil"]
    ELSE LET cfg == ConfigForTableNumber(tr, cur) IN
         IF cfg.isNil
         THEN [res |-> <<>>, err |-> "could not find config for table number"]
         ELSE IndexBucketsLoop(cur + 1, end, tr,
                               Append(res, cfg.Prefix \o Itoa(cur)))

\* the value of ibOut while indexBuckets has not returned
NotCalled == [res |-> <<>>, err |-> "not called"]

indexBuckets(from, through, tr) ==
    IndexBucketsLoop(GoDiv(from, ObjectStorageIndexRequiredPeriod),
                     GoDiv(through, ObjectStorageIndexRequiredPeriod),
                     tr, <<>>)

----------------------------------------------------------------------------
(* The local index directory tree: <root>/multitenant/<bucket>/<filename> *)

\* the names a first-level entry may have, in the order ReadDir lists them
TopNames == << <<"1", "7">>, <<"b", "a", "d">>, <<"t", "1", "8">> >>

\* the file name of the multitenant identifier (ts, node "n")
TsdbName(ts) == Itoa(ts) \o <<"-", "n", ".tsdb">>

\* the names an entry of a bucket directory may have, in ReadDir's order
FileNames ==
    [i \in 1..(MaxTsdb + 1) |->
        IF i <= MaxTsdb THEN TsdbName(i) ELSE <<"u", "-", "n", ".tmp">>]

Range(seq) == { seq[i] : i \in 1..Len(seq) }

Absent == [kind |-> "absent", listable |-> TRUE, names |-> {}]

TopEntries ==
    { Absent, [kind |-> "file", listable |-> TRUE, names |-> {}] }
    \cup { [kind |-> "dir", listable |-> l, names |-> ns] :
             l \in BOOLEAN, ns \in SUBSET Range(FileNames) }

FsEmpty ==
    /\ fsRootOk = FALSE
    /\ fsTop = [i \in 1..Len(TopNames) |-> Absent]

\* an empty map[string]*Builder
NoPeriods == <<>>

BuildIdle ==
    /\ wal = {} /\ bpc = "idle" /\ bT = 0 /\ recoverErr = "nil"
    /\ heads = {} /\ visited = {} /\ periods = NoPeriods /\ built = {}
    /\ bErr = "nil" /\ tsdbCreationsTotal = 0 /\ tsdbCreationFailures = 0

\* the BuildFromWALs calls of the two-call scenarios
Calls == {1, 2}

CallsIdle ==
    /\ cpc = [c \in Calls |-> "idle"]
    /\ cafter = [c \in Calls |-> {}]
    /\ cheads = [c \in Calls |-> {}]
    /\ cvisited = [c \in Calls |-> {}]
    /\ cmaps = [c \in Calls |-> NoPeriods]
    /\ cowner = [c \in Calls |-> NoPeriods]
    /\ cbuilt = [c \in Calls |-> {}]
    /\ cErr = [c \in Calls |-> "nil"]
    /\ clog = [c \in Calls |-> <<>>]

\* ioutil.ReadDir of the multitenant root: the entries present, sorted by name
ReadRoot == SelectSeq([i \in 1..Len(TopNames) |-> i],
                      LAMBDA i : fsTop[i].kind # "absent")

\* ioutil.ReadDir of a bucket directory: its entries, sorted by name
ReadBucket(i) == SelectSeq(FileNames, LAMBDA n : n \in fsTop[i].names)

\* parseMultitenantTSDBPath: <digits> - <node> .tsdb
parseMultitenantTSDBPath(name) ==
    LET n == Len(name) IN
    IF /\ n >= 4 /\ name[n] = ".tsdb" /\ name[n - 2] = "-"
       /\ \A i \in 1..(n - 3) : IsDigit(name[i])
    THEN [ok |-> TRUE, ts |-> SubSeq(name, 1, n - 3), nodeName |-> name[n - 1]]
    ELSE [ok |-> FALSE, ts |-> <<>>, nodeName |-> ""]

----------------------------------------------------------------------------
(* tsdbManager.Start *)

\* a plausible slip: every directory counts as a bucket
MatchAnyName(name) == Len(name) > 0

\* extractBucketNumberRegex.MatchString, the regexp being [0-9]+$
MatchBucketNumber(name) == Len(name) > 0 /\ IsDigit(name[Len(name)])

\* a plausible slip: the error of AddIndex is counted and the loop goes on
AddIndexErrorIgnored(failed) == FALSE

\* if err := m.shipper.AddIndex(...); err != nil { ...; return err }
AddIndexAborts(failed) == failed

\* the record of one Publisher.AddIndex(bucket, "", file) call
AddIndexCall(bucket, path, valid, failed) ==
    [op |-> "AddIndex", key |-> bucket, tenant |-> "",
     file |-> [path |-> path, valid |-> valid],
     err |-> IF failed THEN "AddIndex failed" ELSE "nil"]

StartIdle ==
    /\ spc = "idle" /\ sErr = "nil" /\ sFiles = <<>> /\ sBucket = <<>>
    /\ sTsdbs = <<>> /\ buckets = 0 /\ indices = 0 /\ loadingErrors = 0

InitStart ==
    /\ fsRootOk \in BOOLEAN
    /\ fsTop \in [1..Len(TopNames) -> TopEntries]
    /\ ~fsRootOk => fsTop = [i \in 1..Len(TopNames) |-> Absent]
    /\ calls = <<>>
    /\ spc = "start" /\ sErr = "nil" /\ sFiles = <<>> /\ sBucket = <<>>
    /\ sTsdbs = <<>> /\ buckets = 0 /\ indices = 0 /\ loadingErrors = 0
    /\ tableRanges = <<>>
    /\ ibFrom = 0 /\ ibThrough = 0 /\ ibOut = NotCalled
    /\ BuildIdle /\ CallsIdle

StartFrame == UNCHANGED <<tableRanges, bucketVars, fsVars, buildVars, callVars>>

\* ioutil.ReadDir(mulitenantDir) fails: Start returns the error
StartRootFails ==
    /\ spc = "start" /\ ~fsRootOk
    /\ sErr' = "ReadDir failed" /\ spc' = "done"
    /\ UNCHANGED <<calls, sFiles, sBucket, sTsdbs, buckets, indices, loadingErrors>>
    /\ StartFrame

StartListRoot ==
    /\ spc = "start" /\ fsRootOk
    /\ sFiles' = ReadRoot /\ spc' = "dirs"
    /\ UNCHANGED <<calls, sErr, sBucket, sTsdbs, buckets, indices, loadingErrors>>
    /\ StartFrame

\* if !f.IsDir() { continue }
StartSkipNonDir ==
    /\ spc = "dirs" /\ sFiles # <<>>
    /\ fsTop[Head(sFiles)].kind # "dir"
    /\ sFiles' = Tail(sFiles)
    /\ UNCHANGED <<calls, spc, sErr, sBucket, sTsdbs, buckets, indices, loadingErrors>>
    /\ StartFrame

\* the name does not match: the warning evaluates err.Error() on the err of
\* the root listing, which is nil here, and the call panics
StartBadBucketName ==
    /\ spc = "dirs" /\ sFiles # <<>>
    /\ fsTop[Head(sFiles)].kind = "dir"
    /\ ~MatchBucketNumber(TopNames[Head(sFiles)])
    /\ spc' = "panicked"
    /\ UNCHANGED <<calls, sErr, sFiles, sBucket, sTsdbs, buckets, indices, loadingErrors>>
    /\ StartFrame

\* a plausible slip: the error of listing a bucket is returned
StartBucketUnreadableAborts ==
    /\ spc = "dirs" /\ sFiles # <<>>
    /\ fsTop[Head(sFiles)].kind = "dir"
    /\ MatchBucketNumber(TopNames[Head(sFiles)])
    /\ ~fsTop[Head(sFiles)].listable
    /\ buckets' = buckets + 1
    /\ sFiles' = Tail(sFiles)
    /\ sErr' = "ReadDir failed" /\ spc' = "done"
    /\ UNCHANGED <<calls, sBucket, sTsdbs, indices, loadingErrors>>
    /\ StartFrame

\* buckets++, then ioutil.ReadDir of the bucket fails: warning, continue
StartBucketUnreadable ==
    /\ spc = "dirs" /\ sFiles # <<>>
    /\ fsTop[Head(sFiles)].kind = "dir"
    /\ MatchBucketNumber(TopNames[Head(sFiles)])
    /\ ~fsTop[Head(sFiles)].listable
    /\ buckets' = buckets + 1
    /\ sFiles' = Tail(sFiles)
    /\ UNCHANGED <<calls, spc, sErr, sBucket, sTsdbs, indices, loadingErrors>>
    /\ StartFrame

\* buckets++, then the bucket is listed
StartOpenBucket ==
    /\ spc = "dirs" /\ sFiles # <<>>
    /\ fsTop[Head(sFiles)].kind = "dir"
    /\ MatchBucketNumber(TopNames[Head(sFiles)])
    /\ fsTop[Head(sFiles)].listable
    /\ buckets' = buckets + 1
    /\ sBucket' = TopNames[Head(sFiles)]
    /\ sTsdbs' = ReadBucket(Head(sFiles))
    /\ sFiles' = Tail(sFiles)
    /\ spc' = "files"
    /\ UNCHANGED <<calls, sErr, indices, loadingErrors>>
    /\ StartFrame

\* a plausible slip: an entry that does not parse is removed from its bucket
StartSkipUnparseableRemovesFile ==
    /\ spc = "files" /\ sTsdbs # <<>>
    /\ ~parseMultitenantTSDBPath(Head(sTsdbs)).ok
    /\ sTsdbs' = Tail(sTsdbs)
    /\ fsTop' = [i \in 1..Len(TopNames) |->
                   IF TopNames[i] = sBucket
                   THEN [fsTop[i] EXCEPT !.names = @ \ {Head(sTsdbs)}]
                   ELSE fsTop[i]]
    /\ UNCHANGED <<calls, spc, sErr, sFiles, sBucket, buckets, indices, loadingErrors>>
    /\ UNCHANGED <<tableRanges, bucketVars, fsRootOk, buildVars, callVars>>

\* id, ok := parseMultitenantTSDBPath(db.Name()); if !ok { continue }
StartSkipUnparseable ==
    /\ spc = "files" /\ sTsdbs # <<>>
    /\ ~parseMultitenantTSDBPath(Head(sTsdbs)).ok
    /\ sTsdbs' = Tail(sTsdbs)
    /\ UNCHANGED <<calls, spc, sErr, sFiles, sBucket, buckets, indices, loadingErrors>>
    /\ StartFrame

\* a plausible slip: an entry whose file could not be constructed is
\* counted as a loading error and not registered
AddIndexSkippedOnCtorError(ctorFailed) == ~ctorFailed

\* the block that handles the error of NewShippableTSDBFile has no continue
\* and no return: AddIndex is reached whether the construction failed or not
AddIndexReached(ctorFailed) == TRUE

\* indices++, NewShippableTSDBFile (its error is counted only), AddIndex
\* (its error is counted and returned)
StartAddIndex ==
    /\ spc = "files" /\ sTsdbs # <<>>
    /\ parseMultitenantTSDBPath(Head(sTsdbs)).ok
    /\ indices' = indices + 1
    /\ \E ctorFailed \in BOOLEAN, addFailed \in BOOLEAN :
         IF AddIndexReached(ctorFailed)
         THEN /\ calls' = Append(calls,
                     AddIndexCall(sBucket,
                                  <<"multitenant", sBucket, Head(sTsdbs)>>,
                                  ~ctorFailed, addFailed))
              /\ loadingErrors' = loadingErrors
                     + (IF ctorFailed THEN 1 ELSE 0)
                     + (IF addFailed THEN 1 ELSE 0)
              /\ IF AddIndexAborts(addFailed)
                 THEN /\ sErr' = "AddIndex failed" /\ spc' = "done"
                      /\ UNCHANGED sTsdbs
                 ELSE /\ sTsdbs' = Tail(sTsdbs)
                      /\ UNCHANGED <<sErr, spc>>
         ELSE /\ ~addFailed
              /\ loadingErrors' = loadingErrors + 1
              /\ sTsdbs' = Tail(sTsdbs)
              /\ UNCHANGED <<calls, sErr, spc>>
    /\ UNCHANGED <<sFiles, sBucket, buckets>>
    /\ StartFrame

\* the loop over the bucket's entries ends
StartBucketDone ==
    /\ spc = "files" /\ sTsdbs = <<>>
    /\ spc' = "dirs"
    /\ UNCHANGED <<calls, sErr, sFiles, sBucket, sTsdbs, buckets, indices, loadingErrors>>
    /\ StartFrame

\* the loop over the first-level entries ends: return nil
StartReturn ==
    /\ spc = "dirs" /\ sFiles = <<>>
    /\ spc' = "done" /\ sErr' = "nil"
    /\ UNCHANGED <<calls, sFiles, sBucket, sTsdbs, buckets, indices, loadingErrors>>
    /\ StartFrame

NextStart ==
    \/ StartRootFails
    \/ StartListRoot
    \/ StartSkipNonDir
    \/ StartBadBucketName
    \/ StartBucketUnreadable
    \/ StartOpenBucket
    \/ StartSkipUnparseable
    \/ StartAddIndex
    \/ StartBucketDone
    \/ StartReturn

SpecStart == InitStart /\ [][NextStart]_vars

----------------------------------------------------------------------------
(* tsdbManager.BuildFromWALs *)

TenantLabel == <<"__loki_tenant__">>

Users == {"A", "B"}

\* label-sets: sets of (name, value)
LabelSets == { { <<"app", "x">> }, { <<"app", "y">>, <<"env", "p">> } }

\* the labels a label-set may hold, numbered
AllLabels ==
    << <<"app", "x">>, <<"app", "y">>, <<"env", "p">>,
       <<TenantLabel[1], "A">>, <<TenantLabel[1], "B">> >>

RECURSIVE Pow2(_)
Pow2(n) == IF n = 0 THEN 1 ELSE 2 * Pow2(n - 1)

RECURSIVE HashFrom(_, _)
HashFrom(ls, i) ==
    IF i > Len(AllLabels) THEN 0
    ELSE (IF AllLabels[i] \in ls THEN Pow2(i - 1) ELSE 0) + HashFrom(ls, i + 1)

\* labels.Labels.Hash: a number determined by the labels of the set
Hash(ls) == HashFrom(ls, 1)

\* labels.NewBuilder(ls).Set(TenantLabel, user).Labels()
WithTenant(ls, user) ==
    { l \in ls : l[1] # TenantLabel[1] } \cup { <<TenantLabel[1], user>> }

\* a plausible slip: the fingerprint of the label-set with the tenant label
FingerprintWithTenant(ls, user) == Hash(WithTenant(ls, user))

\* model.Fingerprint(ls.Hash()): of the label-set as recovered
SeriesFingerprint(ls, user) == Hash(ls)

Chunk(from, through) == [from |-> from, through |-> through]

\* the chunk lists of a series: one chunk across tables 0 and 1, one in
\* table 0 and one in table 1, one in table 2, one across 0 and 1 and one in 2
ChunkLists ==
    { <<Chunk(10, 36)>>, <<Chunk(10, 20), Chunk(30, 40)>>,
      <<Chunk(50, 60)>>, <<Chunk(10, 36), Chunk(50, 60)>> }

\* the argument t of a build, as a Unix time
BuildTimes == {1}

AllSeries ==
    { [user |-> u, ls |-> l, chks |-> c] :
        u \in Users, l \in LabelSets, c \in ChunkLists }

\* a WAL set: at most MaxSeries series, one per (tenant, label-set)
WalSets ==
    UNION { { { [user |-> k[1], ls |-> k[2], chks |-> f[k]] : k \in ks } :
                f \in [ks -> ChunkLists] } :
            ks \in { K \in SUBSET (Users \X LabelSets) :
                        Cardinality(K) <= MaxSeries } }

\* table-range configurations of a manager: tables 0..1 only, and
\* tables 0..2 with a prefix of its own for table 1
BuildRanges ==
    { [n \in 0..1 |-> PeriodConfig(<<"a">>)],
      [n \in 0..2 |-> PeriodConfig(IF n = 1 THEN <<"b">> ELSE <<"a">>)] }

\* a plausible slip: only the first bucket of a chunk receives it
RECURSIVE GroupFirstBucketOnly(_, _, _)
GroupFirstBucketOnly(chks, tr, pds) ==
    IF chks = <<>> THEN [pds |-> pds, err |-> "nil"]
    ELSE LET chk == Head(chks)
             ib == indexBuckets(chk.from, chk.through, tr)
             b == ib.res[1]
         IN IF ib.err # "nil" THEN [pds |-> NoPeriods, err |-> ib.err]
            ELSE GroupFirstBucketOnly(Tail(chks), tr,
                    IF b \in DOMAIN pds
                    THEN [pds EXCEPT ![b] = Append(@, chk)]
                    ELSE (b :> <<chk>>) @@ pds)

\* pds[bucket] = append(pds[bucket], chk) for each bucket of idxBuckets
RECURSIVE AppendToBuckets(_, _, _)
AppendToBuckets(pds, bs, chk) ==
    IF bs = <<>> THEN pds
    ELSE AppendToBuckets(
            IF Head(bs) \in DOMAIN pds
            THEN [pds EXCEPT ![Head(bs)] = Append(@, chk)]
            ELSE (Head(bs) :> <<chk>>) @@ pds,
            Tail(bs), chk)

\* the loop over chks of the forAll callback: the chunks of a series by
\* bucket key, or the error of indexBuckets
RECURSIVE GroupChunks(_, _, _)
GroupChunks(chks, tr, pds) ==
    IF chks = <<>> THEN [pds |-> pds, err |-> "nil"]
    ELSE LET chk == Head(chks)
             ib == indexBuckets(chk.from, chk.through, tr)
         IN IF ib.err # "nil" THEN [pds |-> NoPeriods, err |-> ib.err]
            ELSE GroupChunks(Tail(chks), tr, AppendToBuckets(pds, ib.res, chk))

\* a plausible slip: a Builder is created for every series
AddSeriesToNewBuilder(ps, pd, series) == (pd :> <<series>>) @@ ps

\* b, ok := periods[pd]; if !ok { b = NewBuilder(); periods[pd] = b };
\* b.AddSeries(...)
AddSeries(ps, pd, series) ==
    IF pd \in DOMAIN ps
    THEN [ps EXCEPT ![pd] = Append(@, series)]
    ELSE (pd :> <<series>>) @@ ps

\* the loop over pds of the forAll callback, in any order of the map
RECURSIVE AddToBuilders(_, _, _, _, _)
AddToBuilders(ps, pds, todo, s, withTenant) ==
    IF todo = {} THEN ps
    ELSE LET pd == CHOOSE k \in todo : TRUE IN
         AddToBuilders(
            AddSeries(ps, pd, [labels |-> withTenant,
                               fp |-> SeriesFingerprint(s.ls, s.user),
                               chks |-> pds[pd]]),
            pds, todo \ {pd}, s, withTenant)

\* a plausible slip: a failed recovery is logged and the build goes on
RecoverErrorIgnored(err) == FALSE

\* if err = recoverHead(...); err != nil { return errors.Wrap(...) }
RecoverAborts(err) == err # "nil"

\* the record of one Builder.Build call
BuildCall(p, dst, err) ==
    [op |-> "Build", key |-> p, tenant |-> "",
     file |-> [path |-> dst, valid |-> TRUE], err |-> err]

InitBuild ==
    /\ tableRanges \in BuildRanges
    /\ wal \in WalSets
    /\ bT \in BuildTimes
    /\ bpc = "start" /\ recoverErr = "nil"
    /\ heads = {} /\ visited = {} /\ periods = NoPeriods /\ built = {}
    /\ bErr = "nil" /\ tsdbCreationsTotal = 0 /\ tsdbCreationFailures = 0
    /\ calls = <<>>
    /\ ibFrom = 0 /\ ibThrough = 0 /\ ibOut = NotCalled
    /\ FsEmpty /\ StartIdle /\ CallsIdle

BuildFrame ==
    UNCHANGED <<tableRanges, bucketVars, fsVars, startVars, wal, bT, callVars>>

\* recoverHead fails, having loaded some of the series into tmp
BuildRecoverFails ==
    /\ bpc = "start"
    /\ recoverErr' = "recoverHead failed"
    /\ \E part \in SUBSET wal : heads' = part
    /\ IF RecoverAborts(recoverErr')
       THEN /\ bErr' = "building TSDB from WALs: recoverHead failed"
            /\ bpc' = "return"
       ELSE /\ bpc' = "forAll" /\ UNCHANGED bErr
    /\ UNCHANGED <<calls, visited, periods, built,
                   tsdbCreationsTotal, tsdbCreationFailures>>
    /\ BuildFrame

\* recoverHead succeeds; periods := make(map[string]*Builder)
BuildRecoverHead ==
    /\ bpc = "start"
    /\ recoverErr' = "nil"
    /\ heads' = wal
    /\ periods' = NoPeriods
    /\ bpc' = "forAll"
    /\ UNCHANGED <<calls, visited, built, bErr,
                   tsdbCreationsTotal, tsdbCreationFailures>>
    /\ BuildFrame

\* a plausible slip: a series with a configuration gap is logged and
\* skipped, and forAll goes on
BuildVisitGapSkipsSeries(s) ==
    /\ bpc = "forAll" /\ s \in heads \ visited
    /\ GroupChunks(s.chks, tableRanges, NoPeriods).err # "nil"
    /\ visited' = visited \cup {s}
    /\ UNCHANGED <<calls, bpc, recoverErr, heads, periods, built, bErr,
                   tsdbCreationsTotal, tsdbCreationFailures>>
    /\ BuildFrame

\* the forAll callback on one series, indexBuckets failing for a chunk:
\* the callback returns the error, forAll and BuildFromWALs return it
BuildVisitGap(s) ==
    /\ bpc = "forAll" /\ s \in heads \ visited
    /\ GroupChunks(s.chks, tableRanges, NoPeriods).err # "nil"
    /\ bErr' = GroupChunks(s.chks, tableRanges, NoPeriods).err
    /\ bpc' = "return"
    /\ UNCHANGED <<calls, recoverErr, heads, visited, periods, built,
                   tsdbCreationsTotal, tsdbCreationFailures>>
    /\ BuildFrame

\* the forAll callback on one series: its chunks grouped by bucket key,
\* the tenant label set, one AddSeries per bucket key
BuildVisitSeries(s) ==
    /\ bpc = "forAll" /\ s \in heads \ visited
    /\ LET g == GroupChunks(s.chks, tableRanges, NoPeriods) IN
         /\ g.err = "nil"
         /\ periods' = AddToBuilders(periods, g.pds, DOMAIN g.pds, s,
                                      WithTenant(s.ls, s.user))
    /\ visited' = visited \cup {s}
    /\ UNCHANGED <<calls, bpc, recoverErr, heads, built, bErr,
                   tsdbCreationsTotal, tsdbCreationFailures>>
    /\ BuildFrame

\* forAll returns nil
BuildForAllDone ==
    /\ bpc = "forAll" /\ visited = heads
    /\ bpc' = "periods"
    /\ UNCHANGED <<calls, recoverErr, heads, visited, periods, built, bErr,
                   tsdbCreationsTotal, tsdbCreationFailures>>
    /\ BuildFrame

\* the destination of period p: <dir>/multitenant/<p>/<t>-<nodeName>.tsdb
Dst(p, t) == <<"multitenant", p, TsdbName(t)>>

\* what Build hands to its identifier function: the time bounds of the
\* chunks of the Builder and a checksum of its content (a number that
\* differs between the contents of the model, far below 2^32)
ChunksOf(b) == UNION { Range(b[i].chks) : i \in 1..Len(b) }

From(b) ==
    CHOOSE t \in { c.from : c \in ChunksOf(b) } :
        \A c \in ChunksOf(b) : t <= c.from

Through(b) ==
    CHOOSE t \in { c.through : c \in ChunksOf(b) } :
        \A c \in ChunksOf(b) : c.through <= t

RECURSIVE Checksum(_)
Checksum(b) ==
    IF b = <<>> THEN 0
    ELSE Head(b).fp + Len(Head(b).chks) + 31 * Checksum(Tail(b))

\* a plausible slip: the file is named after the checksum of its content
IdentifierFnByChecksum(dst, from, through, checksum) ==
    <<dst[1], dst[2], Itoa(checksum) \o <<"-", "n", ".tsdb">> >>

\* func(from, through model.Time, checksum uint32) Identifier { return dst }
IdentifierFn(dst, from, through, checksum) == dst

\* a plausible slip: the destination is registered before it is built
PeriodCallsAddFirst(p, id, dst, outcome) ==
    << AddIndexCall(p, dst, TRUE, outcome = "AddIndex failed"),
       BuildCall(p, id, IF outcome = "Build failed" THEN outcome ELSE "nil") >>

\* the collaborator calls of one iteration of the range over periods:
\* Build, which writes to the identifier id; if it and
\* NewShippableTSDBFile(dst) succeed, AddIndex of dst
PeriodCalls(p, id, dst, outcome) ==
    IF outcome = "Build failed"
    THEN << BuildCall(p, id, outcome) >>
    ELSE IF outcome = "NewShippableTSDBFile failed"
    THEN << BuildCall(p, id, "nil") >>
    ELSE << BuildCall(p, id, "nil"),
            AddIndexCall(p, dst, TRUE, outcome = "AddIndex failed") >>

\* the identifier Build writes the Builder b of period p to
BuiltIdentifier(p, t, b) ==
    IdentifierFn(Dst(p, t), From(b), Through(b), Checksum(b))

\* a plausible slip: the error of a period is logged and the range goes on
PeriodErrorIgnored(outcome) == FALSE

\* if err != nil { return err }, after Build, NewShippableTSDBFile, AddIndex
PeriodAborts(outcome) == outcome # "nil"

\* one iteration of the range over periods: Build, NewShippableTSDBFile,
\* AddIndex; the first of them to fail returns its error
BuildPeriod(p) ==
    /\ bpc = "periods" /\ p \in (DOMAIN periods) \ built
    /\ \E outcome \in {"nil", "Build failed", "NewShippableTSDBFile failed",
                        "AddIndex failed"} :
         /\ calls' = calls \o PeriodCalls(p, BuiltIdentifier(p, bT, periods[p]),
                                          Dst(p, bT), outcome)
         /\ IF PeriodAborts(outcome)
            THEN /\ bErr' = outcome /\ bpc' = "return"
                 /\ UNCHANGED built
            ELSE /\ built' = built \cup {p}
                 /\ UNCHANGED <<bpc, bErr>>
    /\ UNCHANGED <<recoverErr, heads, visited, periods,
                   tsdbCreationsTotal, tsdbCreationFailures>>
    /\ BuildFrame

\* the range over periods ends: return nil
BuildPeriodsDone ==
    /\ bpc = "periods" /\ built = DOMAIN periods
    /\ bErr' = "nil" /\ bpc' = "return"
    /\ UNCHANGED <<calls, recoverErr, heads, visited, periods, built,
                   tsdbCreationsTotal, tsdbCreationFailures>>
    /\ BuildFrame

\* a plausible slip: the deferred function reads an err that only the
\* recovery assigns
CountsRecoveryFailureOnly(err) ==
    err = "building TSDB from WALs: recoverHead failed"

\* if err != nil { m.metrics.tsdbCreationFailures.Inc() }
CountsFailure(err) == err # "nil"

\* the deferred function: the attempt is counted, and the failure if err
BuildReturn ==
    /\ bpc = "return"
    /\ tsdbCreationsTotal' = tsdbCreationsTotal + 1
    /\ tsdbCreationFailures' =
          tsdbCreationFailures + (IF CountsFailure(bErr) THEN 1 ELSE 0)
    /\ bpc' = "done"
    /\ UNCHANGED <<calls, recoverErr, heads, visited, periods, built, bErr>>
    /\ BuildFrame

NextBuild ==
    \/ BuildRecoverFails
    \/ BuildRecoverHead
    \/ \E s \in AllSeries : BuildVisitGap(s)
    \/ \E s \in AllSeries : BuildVisitSeries(s)
    \/ BuildForAllDone
    \/ \E p \in DOMAIN periods : BuildPeriod(p)
    \/ BuildPeriodsDone
    \/ BuildReturn

SpecBuild == InitBuild /\ [][NextBuild]_vars

----------------------------------------------------------------------------
(* Two BuildFromWALs calls on one manager, with the same t and the same    *)
(* WAL set: one after the other (a retry) or with their steps interleaved. *)
(* The manager has no lock around the call, so the steps of two calls may  *)
(* interleave in any way.                                                  *)

\* the WAL sets of the two-call scenarios: no series or one series
CallWalSets == { w \in WalSets : Cardinality(w) <= 1 }

\* a plausible slip: the map is kept in a field of the manager
PeriodsOfManager(c) == 1

\* periods := make(map[string]*Builder) declares a variable of the call:
\* the call c works on the map it made itself
PeriodsOf(c) == c

\* the maker and the adders of the Builders, after the call c added a
\* series to the Builders of keys, making those that did not exist
OwnersAfter(ow, keys, c) ==
    [k \in (DOMAIN ow) \cup keys |->
        IF k \in DOMAIN ow
        THEN IF k \in keys THEN [ow[k] EXCEPT !.adders = @ \cup {c}] ELSE ow[k]
        ELSE [creator |-> c, adders |-> {c}]]

InitCalls ==
    /\ tableRanges \in BuildRanges
    /\ wal \in CallWalSets
    /\ bT \in BuildTimes
    /\ cpc = [c \in Calls |-> "start"]
    /\ cafter = [c \in Calls |-> {}]
    /\ cheads = [c \in Calls |-> {}]
    /\ cvisited = [c \in Calls |-> {}]
    /\ cmaps = [c \in Calls |-> NoPeriods]
    /\ cowner = [c \in Calls |-> NoPeriods]
    /\ cbuilt = [c \in Calls |-> {}]
    /\ cErr = [c \in Calls |-> "nil"]
    /\ clog = [c \in Calls |-> <<>>]
    /\ bpc = "idle" /\ recoverErr = "nil"
    /\ heads = {} /\ visited = {} /\ periods = NoPeriods /\ built = {}
    /\ bErr = "nil" /\ tsdbCreationsTotal = 0 /\ tsdbCreationFailures = 0
    /\ calls = <<>>
    /\ ibFrom = 0 /\ ibThrough = 0 /\ ibOut = NotCalled
    /\ FsEmpty /\ StartIdle

CallFrame ==
    UNCHANGED <<tableRanges, bucketVars, fsVars, startVars, calls, wal, bT,
                bpc, recoverErr, heads, visited, periods, built, bErr>>

Returned == { d \in Calls : cpc[d] = "done" }

\* recoverHead fails, having loaded some of the series into tmp
CallRecoverFails(c) ==
    /\ cpc[c] = "start"
    /\ cafter' = [cafter EXCEPT ![c] = Returned]
    /\ \E part \in SUBSET wal : cheads' = [cheads EXCEPT ![c] = part]
    /\ cErr' = [cErr EXCEPT ![c] = "building TSDB from WALs: recoverHead failed"]
    /\ cpc' = [cpc EXCEPT ![c] = "return"]
    /\ UNCHANGED <<cvisited, cmaps, cowner, cbuilt, clog,
                   tsdbCreationsTotal, tsdbCreationFailures>>
    /\ CallFrame

\* recoverHead succeeds; periods := make(map[string]*Builder)
CallRecoverHead(c) ==
    /\ cpc[c] = "start"
    /\ cafter' = [cafter EXCEPT ![c] = Returned]
    /\ cheads' = [cheads EXCEPT ![c] = wal]
    /\ cmaps' = [cmaps EXCEPT ![PeriodsOf(c)] = NoPeriods]
    /\ cowner' = [cowner EXCEPT ![PeriodsOf(c)] = NoPeriods]
    /\ cpc' = [cpc EXCEPT ![c] = "forAll"]
    /\ UNCHANGED <<cvisited, cbuilt, cErr, clog,
                   tsdbCreationsTotal, tsdbCreationFailures>>
    /\ CallFrame

\* the forAll callback on one series, indexBuckets failing for a chunk
CallVisitGap(c, s) ==
    /\ cpc[c] = "forAll" /\ s \in cheads[c] \ cvisited[c]
    /\ GroupChunks(s.chks, tableRanges, NoPeriods).err # "nil"
    /\ cErr' = [cErr EXCEPT
                  ![c] = GroupChunks(s.chks, tableRanges, NoPeriods).err]
    /\ cpc' = [cpc EXCEPT ![c] = "return"]
    /\ UNCHANGED <<cafter, cheads, cvisited, cmaps, cowner, cbuilt, clog,
                   tsdbCreationsTotal, tsdbCreationFailures>>
    /\ CallFrame

\* the forAll callback on one series: one AddSeries per bucket key, on the
\* Builder found in periods or on a new one put into periods
CallVisitSeries(c, s) ==
    /\ cpc[c] = "forAll" /\ s \in cheads[c] \ cvisited[c]
    /\ LET g == GroupChunks(s.chks, tableRanges, NoPeriods)
           m == PeriodsOf(c) IN
         /\ g.err = "nil"
         /\ cmaps' = [cmaps EXCEPT
                        ![m] = AddToBuilders(@, g.pds, DOMAIN g.pds, s,
                                             WithTenant(s.ls, s.user))]
         /\ cowner' = [cowner EXCEPT ![m] = OwnersAfter(@, DOMAIN g.pds, c)]
    /\ cvisited' = [cvisited EXCEPT ![c] = @ \cup {s}]
    /\ UNCHANGED <<cpc, cafter, cheads, cbuilt, cErr, clog,
                   tsdbCreationsTotal, tsdbCreationFailures>>
    /\ CallFrame

\* forAll returns nil
CallForAllDone(c) ==
    /\ cpc[c] = "forAll" /\ cvisited[c] = cheads[c]
    /\ cpc' = [cpc EXCEPT ![c] = "periods"]
    /\ UNCHANGED <<cafter, cheads, cvisited, cmaps, cowner, cbuilt, cErr, clog,
                   tsdbCreationsTotal, tsdbCreationFailures>>
    /\ CallFrame

\* one iteration of the range over periods
CallPeriod(c, p) ==
    /\ cpc[c] = "periods"
    /\ p \in (DOMAIN cmaps[PeriodsOf(c)]) \ cbuilt[c]
    /\ \E outcome \in {"nil", "Build failed", "NewShippableTSDBFile failed",
                        "AddIndex failed"} :
         /\ clog' = [clog EXCEPT
                ![c] = @ \o PeriodCalls(p,
                          BuiltIdentifier(p, bT, cmaps[PeriodsOf(c)][p]),
                          Dst(p, bT), outcome)]
         /\ IF PeriodAborts(outcome)
            THEN /\ cErr' = [cErr EXCEPT ![c] = outcome]
                 /\ cpc' = [cpc EXCEPT ![c] = "return"]
                 /\ UNCHANGED cbuilt
            ELSE /\ cbuilt' = [cbuilt EXCEPT ![c] = @ \cup {p}]
                 /\ UNCHANGED <<cpc, cErr>>
    /\ UNCHANGED <<cafter, cheads, cvisited, cmaps, cowner,
                   tsdbCreationsTotal, tsdbCreationFailures>>
    /\ CallFrame

\* the range over periods ends: return nil
CallPeriodsDone(c) ==
    /\ cpc[c] = "periods"
    /\ (DOMAIN cmaps[PeriodsOf(c)]) \subseteq cbuilt[c]
    /\ cErr' = [cErr EXCEPT ![c] = "nil"]
    /\ cpc' = [cpc EXCEPT ![c] = "return"]
    /\ UNCHANGED <<cafter, cheads, cvisited, cmaps, cowner, cbuilt, clog,
                   tsdbCreationsTotal, tsdbCreationFailures>>
    /\ CallFrame

\* the deferred function of the call
CallReturn(c) ==
    /\ cpc[c] = "return"
    /\ tsdbCreationsTotal' = tsdbCreationsTotal + 1
    /\ tsdbCreationFailures' =
          tsdbCreationFailures + (IF CountsFailure(cErr[c]) THEN 1 ELSE 0)
    /\ cpc' = [cpc EXCEPT ![c] = "done"]
    /\ UNCHANGED <<cafter, cheads, cvisited, cmaps, cowner, cbuilt, cErr, clog>>
    /\ CallFrame

NextCalls ==
    \/ \E c \in Calls : CallRecoverFails(c)
    \/ \E c \in Calls : CallRecoverHead(c)
    \/ \E c \in Calls, s \in AllSeries : CallVisitGap(c, s)
    \/ \E c \in Calls, s \in AllSeries : CallVisitSeries(c, s)
    \/ \E c \in Calls : CallForAllDone(c)
    \/ \E c \in Calls : \E p \in DOMAIN cmaps[PeriodsOf(c)] : CallPeriod(c, p)
    \/ \E c \in Calls : CallPeriodsDone(c)
    \/ \E c \in Calls : CallReturn(c)

SpecCalls == InitCalls /\ [][NextCalls]_vars

----------------------------------------------------------------------------
(* Properties of BuildFromWALs *)

\* the bucket keys the Partitioner returns for a chunk
KeysOfChunk(chk) == Range(indexBuckets(chk.from, chk.through, tableRanges).res)

\* the bucket keys touched by at least one recovered chunk
Touched ==
    UNION { UNION { KeysOfChunk(s.chks[i]) : i \in 1..Len(s.chks) } : s \in heads }

CallsOf(op, k) ==
    { i \in 1..Len(calls) : calls[i].op = op /\ calls[i].key = k }

CalledKeys == { calls[i].key : i \in 1..Len(calls) }

\* C3: when BuildFromWALs has returned nil, every bucket key touched by a
\* recovered chunk has had exactly one Build and exactly one
\* AddIndex(key, "", file), and no other key has had any.
C3_OneFilePerTouchedPeriod ==
    (bpc = "done" /\ bErr = "nil")
    => /\ CalledKeys = Touched
       /\ \A k \in Touched :
             /\ Cardinality(CallsOf("Build", k)) = 1
             /\ Cardinality(CallsOf("AddIndex", k)) = 1
             /\ \A i \in CallsOf("AddIndex", k) :
                   calls[i].tenant = "" /\ calls[i].file.path = Dst(k, bT)

\* a build returned nil with two periods touched, one of them only by a
\* chunk that crosses into it, and a configured period left untouched
C3_Witness ==
    /\ bpc = "done" /\ bErr = "nil"
    /\ Cardinality(Touched) = 2
    /\ \A s \in heads : \A i \in 1..Len(s.chks) : s.chks[i] = Chunk(10, 36)
    /\ Cardinality(heads) = 2
    /\ ~ConfigForTableNumber(tableRanges, 2).isNil

\* C4: if WAL recovery failed, BuildFromWALs returns the wrapped error, the
\* failure counter is incremented, and no Builder is created, no Build and
\* no AddIndex call is made.
C4_RecoveryFailureAborts ==
    recoverErr # "nil"
    => /\ periods = NoPeriods
       /\ calls = <<>>
       /\ bpc \in {"return", "done"}
       /\ bErr = "building TSDB from WALs: recoverHead failed"
       /\ (bpc = "done" => tsdbCreationFailures = 1 /\ tsdbCreationsTotal = 1)

\* recovery failed after loading series whose chunks are in configured
\* tables, and the call has returned
C4_Witness ==
    /\ recoverErr # "nil" /\ bpc = "done"
    /\ heads # {} /\ Touched # {}

PeriodErrors ==
    {"Build failed", "NewShippableTSDBFile failed", "AddIndex failed"}

OkCallsOf(op, k) == { i \in CallsOf(op, k) : calls[i].err = "nil" }

\* C11: a Build, file or registration failure for one period returns the
\* error at once: the failing call is the last call, no call is made for a
\* period not yet handled, and every period handled before keeps its one
\* successful Build and its one successful AddIndex.
C11_PeriodFailureAbortsWithoutRollback ==
    /\ \A i \in 1..Len(calls) :
          calls[i].err # "nil"
          => (i = Len(calls) /\ bpc \in {"return", "done"}
              /\ bErr = calls[i].err)
    /\ bErr \in PeriodErrors
       => /\ bpc \in {"return", "done"}
          /\ \E f \in (DOMAIN periods) \ built :
                /\ CalledKeys = built \cup {f}
                /\ calls[Len(calls)].key = f
          /\ \A k \in built :
                /\ Cardinality(OkCallsOf("Build", k)) = 1
                /\ Cardinality(OkCallsOf("AddIndex", k)) = 1

\* a Build failed after one period was built and registered and before
\* another period was handled
C11_Witness ==
    /\ bpc = "done" /\ bErr = "Build failed"
    /\ Cardinality(built) = 1
    /\ Cardinality((DOMAIN periods) \ built) = 2

\* C12: a call counts one attempt when it returns, and one failure exactly
\* if it returns a non-nil error, whatever the error comes from.
C12_CountersFollowOutcome ==
    IF bpc = "done"
    THEN /\ tsdbCreationsTotal = 1
         /\ tsdbCreationFailures = (IF bErr = "nil" THEN 0 ELSE 1)
    ELSE tsdbCreationsTotal = 0 /\ tsdbCreationFailures = 0

\* a call that failed in AddIndex after a registered period has returned
C12_Witness ==
    /\ bpc = "done" /\ bErr = "AddIndex failed" /\ built # {}
    /\ tsdbCreationFailures = 1

\* a chunk of the series has a table number without configuration
HasGap(s) ==
    \E i \in 1..Len(s.chks) :
        \E n \in GoDiv(s.chks[i].from, ObjectStorageIndexRequiredPeriod)
                 ..GoDiv(s.chks[i].through, ObjectStorageIndexRequiredPeriod) :
            ConfigForTableNumber(tableRanges, n).isNil

\* C16: if a chunk of a recovered series has a configuration gap, the
\* call returns the Partitioner's error and makes no Build and no AddIndex
\* call, whatever Builders earlier series have filled.
C16_GapAbortsBeforeFinalization ==
    (recoverErr = "nil" /\ \E s \in heads : HasGap(s))
    => /\ calls = <<>>
       /\ bpc \in {"forAll", "return", "done"}
       /\ bpc \in {"return", "done"}
          => bErr = "could not find config for table number"

\* the call returned the gap error after an earlier series filled Builders
C16_Witness ==
    /\ bpc = "done" /\ bErr = "could not find config for table number"
    /\ periods # NoPeriods /\ visited # {}

\* C18: an AddIndex call directly follows the successful Build of the same
\* key, a Build that is not the last call is directly followed by the
\* AddIndex of its key, and no Build is made before forAll has visited
\* every recovered series without error.
C18_BuildThenAddIndexAfterForAll ==
    /\ \A i \in 1..Len(calls) :
          calls[i].op = "AddIndex"
          => /\ i > 1
             /\ calls[i - 1].op = "Build" /\ calls[i - 1].key = calls[i].key
             /\ calls[i - 1].err = "nil"
    /\ \A i \in 1..(Len(calls) - 1) :
          calls[i].op = "Build"
          => calls[i + 1].op = "AddIndex" /\ calls[i + 1].key = calls[i].key
    /\ calls # <<>>
       => /\ recoverErr = "nil" /\ visited = heads
          /\ bpc \in {"periods", "return", "done"}
          /\ \A s \in heads : ~HasGap(s)

\* three periods were built and registered one after the other
C18_Witness ==
    /\ Len(calls) = 6 /\ bpc = "done" /\ bErr = "nil"
    /\ Cardinality(heads) = 2

\* the series entries a Builder holds for the series s
EntriesFor(k, s) ==
    IF k \in DOMAIN periods
    THEN { i \in 1..Len(periods[k]) :
             periods[k][i].labels = s.ls \cup { <<TenantLabel[1], s.user>> } }
    ELSE {}

\* C8: a chunk of a visited series is in the chunk list of the series in
\* the Builder of bucket key k exactly if k is among the keys the
\* Partitioner returns for the chunk.
C8_ChunkInEveryOverlappedPeriod ==
    \A s \in visited : \A c \in 1..Len(s.chks) :
        \A k \in (DOMAIN periods) \cup KeysOfChunk(s.chks[c]) :
            (\E e \in EntriesFor(k, s) : s.chks[c] \in Range(periods[k][e].chks))
            <=> k \in KeysOfChunk(s.chks[c])

\* a chunk across tables 0 and 1 is in the Builders of both keys, beside a
\* Builder that does not hold it
C8_Witness ==
    \E s \in visited : \E c \in 1..Len(s.chks) :
        /\ s.chks[c] = Chunk(10, 36)
        /\ Cardinality(KeysOfChunk(s.chks[c])) = 2
        /\ \A k \in KeysOfChunk(s.chks[c]) :
              \E e \in EntriesFor(k, s) : s.chks[c] \in Range(periods[k][e].chks)
        /\ \E k \in DOMAIN periods : k \notin KeysOfChunk(s.chks[c])

\* C9: every series a Builder holds carries the labels of a recovered
\* series plus the tenant label, and the fingerprint of the labels as
\* recovered, which is not the fingerprint of the labels it carries.
C9_FingerprintOfOriginalLabels ==
    \A k \in DOMAIN periods : \A i \in 1..Len(periods[k]) :
        /\ \E s \in heads :
              /\ periods[k][i].labels = s.ls \cup { <<TenantLabel[1], s.user>> }
              /\ periods[k][i].fp = Hash(s.ls)
        /\ periods[k][i].fp # Hash(periods[k][i].labels)

\* series of two tenants are held by the Builders of two periods
C9_Witness ==
    /\ Cardinality(DOMAIN periods) >= 2
    /\ \E k \in DOMAIN periods : \E i, j \in 1..Len(periods[k]) :
          /\ <<TenantLabel[1], "A">> \in periods[k][i].labels
          /\ <<TenantLabel[1], "B">> \in periods[k][j].labels

----------------------------------------------------------------------------
(* Properties of two BuildFromWALs calls *)

\* C17: the map of a call is empty when the call begins to visit series,
\* every Builder has received series from the call that made it and from
\* no other call, and a Builder holds at most one entry per series its
\* call has visited, however the steps of the two calls interleave.
C17_BuildersBelongToOneCall ==
    /\ \A c \in Calls :
          (cpc[c] \in {"start", "forAll"} /\ cvisited[c] = {})
          => DOMAIN cmaps[c] = {}
    /\ \A m \in Calls : \A k \in DOMAIN cowner[m] :
          cowner[m][k].adders = {cowner[m][k].creator}
    /\ \A c \in Calls : \A k \in DOMAIN cmaps[c] :
          Len(cmaps[c][k]) <= Cardinality(cvisited[c])

\* both calls began before the other returned, both filled Builders and
\* both returned nil
C17_Witness ==
    /\ \A c \in Calls :
          /\ cpc[c] = "done" /\ cErr[c] = "nil" /\ cafter[c] = {}
          /\ DOMAIN cmaps[c] # {}

\* the path Join(root, bucket key, "<T>-<node>.tsdb")
PathFor(k) == <<"multitenant", k, Itoa(bT) \o <<"-", "n", ".tsdb">> >>

\* (bucket key, path) of the calls with operation op the call c made
PassedTo(op, c) ==
    { <<clog[c][i].key, clog[c][i].file.path>> :
        i \in { j \in 1..Len(clog[c]) : clog[c][j].op = op } }

\* (bucket key, path) of the AddIndex calls of c that returned nil
RegisteredBy(c) ==
    { <<clog[c][i].key, clog[c][i].file.path>> :
        i \in { j \in 1..Len(clog[c]) :
                  clog[c][j].op = "AddIndex" /\ clog[c][j].err = "nil" } }

\* the call r began after the call c had returned an error
IsRetryOf(r, c) == c \in cafter[r] /\ cErr[c] # "nil"

PathsFollowKeyAndT ==
    \A c \in Calls : \A i \in 1..Len(clog[c]) :
        clog[c][i].file.path = PathFor(clog[c][i].key)

SamePathsInRetry(r, c) ==
    \A x \in PassedTo("Build", c), y \in PassedTo("Build", r) :
        x[1] = y[1] => x[2] = y[2]

\* C19 as stated: every path is the one that the root, the bucket key, the
\* node name and T give; when a retry of a failed call has returned, it
\* built each period to the path of the failed call and passed every
\* period the failed call registered to AddIndex with the same key and path.
C19_RetryRegistersAgain ==
    /\ PathsFollowKeyAndT
    /\ \A c \in Calls, r \in Calls :
          (IsRetryOf(r, c) /\ cpc[r] = "done")
          => /\ SamePathsInRetry(r, c)
             /\ RegisteredBy(c) \subseteq PassedTo("AddIndex", r)

\* C19 amended: the same, for a retry that has returned nil.
C19_CompletedRetryRegistersAgain ==
    /\ PathsFollowKeyAndT
    /\ \A c \in Calls, r \in Calls :
          (IsRetryOf(r, c) /\ cpc[r] = "done")
          => /\ SamePathsInRetry(r, c)
             /\ cErr[r] = "nil"
                => RegisteredBy(c) \subseteq PassedTo("AddIndex", r)

\* a call registered one period and failed in the Build of the next; its
\* retry, begun after it returned, has returned nil
C19_Witness ==
    \E c \in Calls, r \in Calls :
        /\ IsRetryOf(r, c) /\ cErr[c] = "Build failed"
        /\ RegisteredBy(c) # {}
        /\ cpc[r] = "done" /\ cErr[r] = "nil"
        /\ Cardinality(RegisteredBy(r)) = 3

----------------------------------------------------------------------------
(* Properties of Start *)

\* "ends in one or more digits"
EndsInDigits(name) ==
    \E k \in 1..Len(name) : \A i \in k..Len(name) : IsDigit(name[i])

NumericDirs ==
    { i \in 1..Len(TopNames) :
        fsTop[i].kind = "dir" /\ EndsInDigits(TopNames[i]) }

\* (bucket, file name) of the entries of the directories dirs whose name
\* parses as a multitenant identifier
EntriesOf(dirs) ==
    UNION { { <<TopNames[i], f>> :
                f \in { g \in fsTop[i].names : parseMultitenantTSDBPath(g).ok } } :
            i \in dirs }

\* (bucket key, file name) of the AddIndex calls made
Registered ==
    { <<calls[k].key, calls[k].file.path[3]>> : k \in 1..Len(calls) }

ExactlyOnceEach(entries) ==
    /\ Registered = entries
    /\ Len(calls) = Cardinality(entries)
    /\ \A k \in 1..Len(calls) :
          /\ calls[k].op = "AddIndex" /\ calls[k].tenant = ""
          /\ calls[k].file.path[2] = calls[k].key

\* C1 as stated: when Start has returned nil, exactly one AddIndex call was
\* made per parseable entry of every first-level directory whose name ends
\* in digits, with the directory's name as key, and no other call.
C1_OnePerParseableEntry ==
    (spc = "done" /\ sErr = "nil") => ExactlyOnceEach(EntriesOf(NumericDirs))

\* C1 amended: the same, for the directories whose listing succeeded.
C1_OnePerListedParseableEntry ==
    (spc = "done" /\ sErr = "nil")
    => ExactlyOnceEach(EntriesOf({ i \in NumericDirs : fsTop[i].listable }))

\* Start returned nil after registering two files of one bucket, skipping
\* an unparseable entry, a first-level file and an unreadable bucket
C1_Witness ==
    /\ spc = "done" /\ sErr = "nil"
    /\ Len(calls) >= 2
    /\ \E i \in NumericDirs :
          fsTop[i].listable /\ \E f \in fsTop[i].names :
                                  ~parseMultitenantTSDBPath(f).ok
    /\ \E i \in 1..Len(TopNames) : fsTop[i].kind = "file"
    /\ \E i \in NumericDirs : ~fsTop[i].listable /\ fsTop[i].names # {}

\* C2: a first-level directory whose name does not end in digits is skipped
\* with a warning; Start does not crash on it.
C2_BadNameDoesNotCrash == spc # "panicked"

\* C13: no step of Start changes the directories and files under the
\* multitenant root, whether it lists, skips, registers, fails or returns.
C13_StartWritesNothing ==
    [][fsRootOk' = fsRootOk /\ fsTop' = fsTop]_vars

\* Start returned nil after registering a file and skipping an
\* unparseable entry and an unreadable bucket
C13_Witness ==
    /\ spc = "done" /\ sErr = "nil" /\ Len(calls) >= 1
    /\ \E i \in NumericDirs : ~fsTop[i].listable
    /\ \E i \in NumericDirs :
          fsTop[i].listable /\ \E f \in fsTop[i].names :
                                  ~parseMultitenantTSDBPath(f).ok

\* the loop over the first-level entries has gone past entry i
Passed(i) ==
    /\ spc \notin {"idle", "start"} /\ fsRootOk
    /\ fsTop[i].kind # "absent" /\ i \notin Range(sFiles)

\* C14: once the loop has passed a bucket whose listing failed, the bucket
\* is among the buckets counted, no AddIndex call carries its key, and the
\* failure has not ended Start: if Start has returned, it returned nil with
\* the parseable entries of every later listed bucket registered, or it
\* returned the error of a failed AddIndex call.
C14_UnreadableBucketIsSkipped ==
    \A i \in NumericDirs :
        (~fsTop[i].listable /\ Passed(i))
        => /\ buckets = Cardinality({ j \in NumericDirs : Passed(j) })
           /\ \A k \in 1..Len(calls) : calls[k].key # TopNames[i]
           /\ spc = "done"
              => \/ /\ sErr = "nil" /\ sFiles = <<>>
                    /\ EntriesOf({ j \in NumericDirs :
                                     j > i /\ fsTop[j].listable })
                          \subseteq Registered
                 \/ /\ sErr = "AddIndex failed" /\ calls # <<>>
                    /\ calls[Len(calls)].err = "AddIndex failed"

\* Start returned nil; the first bucket, which holds a file, could not be
\* listed, and the files of a later bucket were registered
C14_Witness ==
    /\ spc = "done" /\ sErr = "nil" /\ buckets = 2
    /\ fsTop[1].kind = "dir" /\ ~fsTop[1].listable /\ fsTop[1].names # {}
    /\ fsTop[3].kind = "dir" /\ fsTop[3].listable
    /\ Len(calls) >= 1 /\ calls[1].key = TopNames[3]

InvalidCalls == { k \in 1..Len(calls) : ~calls[k].file.valid }

FailedCalls == { k \in 1..Len(calls) : calls[k].err # "nil" }

\* C15: every counted identifier is passed to AddIndex, also when its file
\* could not be constructed; the loading errors are the failed
\* constructions plus the failed AddIndex calls; after a failed
\* construction whose AddIndex succeeded Start has not returned an error.
C15_CtorErrorStillRegisters ==
    /\ indices = Len(calls)
    /\ loadingErrors = Cardinality(InvalidCalls) + Cardinality(FailedCalls)
    /\ \A k \in InvalidCalls :
          (k = Len(calls) /\ calls[k].err = "nil")
          => ~(spc = "done" /\ sErr # "nil")

\* a file could not be constructed, was registered all the same, and the
\* next entry of the bucket was registered after it
C15_Witness ==
    /\ spc = "done" /\ sErr = "nil"
    /\ \E k \in InvalidCalls :
          /\ calls[k].err = "nil" /\ k < Len(calls)
          /\ calls[k + 1].key = calls[k].key
    /\ loadingErrors >= 1

\* C10: an AddIndex call that returned an error is the last call of Start,
\* and Start has returned that error.
C10_AddIndexErrorAborts ==
    \A k \in 1..Len(calls) :
        calls[k].err # "nil"
        => (k = Len(calls) /\ spc = "done" /\ sErr = calls[k].err)

\* AddIndex failed while the bucket had a further parseable entry and a
\* further bucket with parseable entries was still to be visited
C10_Witness ==
    /\ spc = "done" /\ sErr = "AddIndex failed"
    /\ Len(sTsdbs) >= 2 /\ parseMultitenantTSDBPath(sTsdbs[2]).ok
    /\ \E k \in 1..Len(sFiles) :
          /\ sFiles[k] \in NumericDirs /\ fsTop[sFiles[k]].listable
          /\ \E f \in fsTop[sFiles[k]].names : parseMultitenantTSDBPath(f).ok

----------------------------------------------------------------------------
(* The inputs of indexBuckets *)

TableNums == (0 - (MaxTbl + 1)) .. MaxTbl

\* offsets inside a period: its start, 10:00 and 12:00
Offsets == {0, 10, 12}

Times ==
    { s * (k * ObjectStorageIndexRequiredPeriod + o) :
        s \in {-1, 1}, k \in 0..MaxTbl, o \in Offsets }
    \cup { WideTbl * ObjectStorageIndexRequiredPeriod }

Prefixes == { <<"a">>, <<"a", "-">> }

\* pairs of prefixes of a configuration whose prefix changes once
PrefixPairs == { << <<"a", "1">>, <<"a">> >>, << <<"b">>, <<"a">> >> }

\* the table numbers next to zero, each unconfigured or with one of two prefixes
NarrowRanges == [TableNums -> {PeriodConfig(p) : p \in Prefixes} \cup {NoConfig}]

\* 0 .. WideTbl configured, with a change of prefix at table number s
WideRanges ==
    { [n \in 0..WideTbl |-> PeriodConfig(IF n < s THEN pp[1] ELSE pp[2])] :
        s \in 0..(WideTbl + 1), pp \in PrefixPairs }

InitBuckets ==
    /\ tableRanges \in NarrowRanges \cup WideRanges
    /\ ibFrom \in Times
    /\ ibThrough \in Times
    /\ ibFrom <= ibThrough      \* a chunk's interval
    /\ ibOut = NotCalled
    /\ FsEmpty /\ calls = <<>> /\ StartIdle /\ BuildIdle /\ CallsIdle

CallIndexBuckets ==
    /\ ibOut = NotCalled
    /\ ibOut' = indexBuckets(ibFrom, ibThrough, tableRanges)
    /\ UNCHANGED <<tableRanges, ibFrom, ibThrough, fsVars, calls, startVars,
                   buildVars, callVars>>

NextBuckets == CallIndexBuckets

SpecBuckets == InitBuckets /\ [][NextBuckets]_vars

----------------------------------------------------------------------------
(* Properties of indexBuckets *)

Called == ibOut # NotCalled

\* floor(t / period), the table number of the data model
FloorTable(t) == t \div ObjectStorageIndexRequiredPeriod

\* the table numbers the loop of indexBuckets visits
GoTable(t) == GoDiv(t, ObjectStorageIndexRequiredPeriod)

Covered(lo, hi) ==
    \A n \in lo..hi : ~ConfigForTableNumber(tableRanges, n).isNil

KeysOf(lo, hi) ==
    [i \in 1..(hi - lo + 1) |->
        ConfigForTableNumber(tableRanges, lo + i - 1).Prefix \o Itoa(lo + i - 1)]

NoDuplicates(seq) ==
    \A i, j \in 1..Len(seq) : i # j => seq[i] # seq[j]

\* C5: for every interval with from <= through, pre-epoch times included, and
\* every configuration covering floor(from/period)..floor(through/period),
\* indexBuckets returns exactly the keys prefix+number of these table
\* numbers, in increasing order.
C5_FloorTableNumbers ==
    (Called /\ ibFrom <= ibThrough
        /\ Covered(FloorTable(ibFrom), FloorTable(ibThrough)))
    => /\ ibOut.err = "nil"
       /\ ibOut.res = KeysOf(FloorTable(ibFrom), FloorTable(ibThrough))

\* What the code computes: the same statement for times at or after the
\* epoch, where truncation and floor agree.
IndexBucketsFromEpoch ==
    (Called /\ 0 <= ibFrom /\ ibFrom <= ibThrough
        /\ Covered(FloorTable(ibFrom), FloorTable(ibThrough)))
    => /\ ibOut.err = "nil"
       /\ ibOut.res = KeysOf(FloorTable(ibFrom), FloorTable(ibThrough))

\* C6 as stated: for every interval and every configuration the returned
\* sequence of bucket keys has no duplicate.
C6_NoDuplicateKeys == Called => NoDuplicates(ibOut.res)

EndsInDigitOrMinus(p) ==
    Len(p) > 0 /\ (IsDigit(p[Len(p)]) \/ p[Len(p)] = "-")

PrefixesInRange ==
    { ConfigForTableNumber(tableRanges, n).Prefix :
        n \in GoTable(ibFrom)..GoTable(ibThrough) }

SafePrefixes ==
    \/ Cardinality(PrefixesInRange) <= 1
    \/ \A p \in PrefixesInRange : ~EndsInDigitOrMinus(p)

\* C6 amended: when the prefixes of the table numbers in the range are all
\* equal, or none of them ends in a digit or a minus sign, the returned
\* sequence of bucket keys has no duplicate.
C6_NoDuplicateKeysSafePrefixes ==
    (Called /\ SafePrefixes) => NoDuplicates(ibOut.res)

\* a call over three table numbers and two different prefixes returned keys
C6_Witness ==
    /\ Called /\ ibOut.err = "nil" /\ SafePrefixes
    /\ Len(ibOut.res) >= 3
    /\ Cardinality(PrefixesInRange) = 2

\* C7: if a table number in floor(from/period)..floor(through/period) has
\* no configuration entry, indexBuckets returns an error and no keys.
C7_GapIsError ==
    (Called /\ \E n \in FloorTable(ibFrom)..FloorTable(ibThrough) :
                  ConfigForTableNumber(tableRanges, n).isNil)
    => (ibOut.err # "nil" /\ ibOut.res = <<>>)

\* What the code computes: a gap among the table numbers the loop visits
\* gives an error and no keys, whatever keys were appended before the gap.
IndexBucketsGapIsError ==
    (Called /\ \E n \in GoTable(ibFrom)..GoTable(ibThrough) :
                  ConfigForTableNumber(tableRanges, n).isNil)
    => (ibOut.err # "nil" /\ ibOut.res = <<>>)

====
